---- MODULE Spec2Model ----
(***************************************************************************)
(* Spaced-repetition scheduler of acodeaday (backend/app/services/         *)
(* progress.py) with the three routes that drive it (routes/execution.py,  *)
(* routes/progress.py) and the user_progress table (db/tables.py).         *)
(*                                                                         *)
(* The state is the user_progress table (the review ledger), the problem   *)
(* catalog, the UTC date, and one SQLAlchemy session per in-flight request.*)
(* A request reads with SELECT, changes the loaded objects in memory and   *)
(* writes them at db.commit(); the steps of two requests may interleave.   *)
(* The submissions table (history only) is not modelled.                   *)
(***************************************************************************)
EXTENDS Integers, Sequences, FiniteSets, TLC

(***************************************************************************)
(* Python floats.  ease_factor is an IEEE-754 double in [1, 4).  A double  *)
(* in that range is a multiple of 2^-52, written here as                   *)
(*   <<ip, l3, l2, l1, l0>>  =  ip + (l3*B^3 + l2*B^2 + l1*B + l0) / B^4   *)
(* with B = 2^13 (B^4 = 2^52), every limb in 0..B-1.                       *)
(***************************************************************************)
LimbBase == 2^13

\* 2.5
DEFAULT_EASE_FACTOR == <<2, 4096, 0, 0, 0>>

\* the double nearest to 1.3
MIN_EASE_FACTOR == <<1, 2457, 4915, 1638, 3277>>

MASTERY_THRESHOLD_DAYS == 30

VALID_RATINGS == {"again", "hard", "good", "mastered"}

\* The double nearest to 0.2 is (8*q + m8) * 2^-55, q in units of 2^-52.
Float_0_2 == [q |-> <<0, 1638, 3276, 6553, 4915>>, m8 |-> 2]

\* The double nearest to 0.15, in the same form.
Float_0_15 == [q |-> <<0, 1228, 6553, 4915, 1638>>, m8 |-> 3]

\* The double nearest to 1.2.
Float_1_2 == <<1, 1638, 3276, 6553, 4915>>

\* a < b on doubles
FloatLess(a, b) ==
    \E i \in 1..5 : a[i] < b[i] /\ \A j \in 1..(i - 1) : a[j] = b[j]

\* max(a, b) as Python evaluates it: b only if b > a
FloatMax(a, b) == IF FloatLess(a, b) THEN b ELSE a

\* a - 1 unit of 2^-52
FloatPred(a) ==
    LET s0 == a[5] - 1
        b0 == IF s0 < 0 THEN 1 ELSE 0
        s1 == a[4] - b0
        b1 == IF s1 < 0 THEN 1 ELSE 0
        s2 == a[3] - b1
        b2 == IF s2 < 0 THEN 1 ELSE 0
        s3 == a[2] - b2
        b3 == IF s3 < 0 THEN 1 ELSE 0
    IN  <<a[1] - b3, s3 + b3 * LimbBase, s2 + b2 * LimbBase,
          s1 + b1 * LimbBase, s0 + b0 * LimbBase>>

\* a - c in double arithmetic (round to nearest, ties to even), for a - c >= 1.
\* The exact difference is d - c.m8/8 units with d = a - c.q; doubles are one
\* unit apart below 2 and two units apart from 2 on.
FloatSub(a, c) ==
    LET q  == c.q
        s0 == a[5] - q[5]
        b0 == IF s0 < 0 THEN 1 ELSE 0
        s1 == a[4] - q[4] - b0
        b1 == IF s1 < 0 THEN 1 ELSE 0
        s2 == a[3] - q[3] - b1
        b2 == IF s2 < 0 THEN 1 ELSE 0
        s3 == a[2] - q[2] - b2
        b3 == IF s3 < 0 THEN 1 ELSE 0
        d  == <<a[1] - q[1] - b3, s3 + b3 * LimbBase, s2 + b2 * LimbBase,
                s1 + b1 * LimbBase, s0 + b0 * LimbBase>>
        odd == d[5] % 2 = 1
        above2 == FloatLess(<<2, 0, 0, 0, 0>>, d)
    IN  IF above2
        THEN IF odd THEN FloatPred(d) ELSE d
        ELSE IF c.m8 < 4 \/ (c.m8 = 4 /\ ~odd) THEN d ELSE FloatPred(d)

RECURSIVE FloorPow2(_)
\* the largest power of two <= n, for n >= 1
FloorPow2(n) == IF n < 2 THEN 1 ELSE 2 * FloorPow2(n \div 2)

\* int(i * a) for an int i in 1..2^17 and a double a: the exact product is
\* rounded to a double (53 significant bits), then truncated.  The rounding
\* reaches the next integer exactly when the product is within half a grid
\* step of it.
IntMul(i, a) ==
    LET c0 == i * a[5]
        c1 == i * a[4] + (c0 \div LimbBase)
        c2 == i * a[3] + (c1 \div LimbBase)
        c3 == i * a[2] + (c2 \div LimbBase)
        n  == i * a[1] + (c3 \div LimbBase)
        top == LimbBase - 1
        \* 2^52 minus the fraction of the product, when it is below 2^26 units
        gap == (top - (c1 % LimbBase)) * LimbBase + (LimbBase - (c0 % LimbBase))
        up == /\ c3 % LimbBase = top
              /\ c2 % LimbBase = top
              /\ 2 * gap <= FloorPow2(n)
    IN  IF up THEN n + 1 ELSE n

\* round(a, 2), in hundredths
Round2(a) ==
    LET c0 == 100 * a[5]
        c1 == 100 * a[4] + (c0 \div LimbBase)
        c2 == 100 * a[3] + (c1 \div LimbBase)
        c3 == 100 * a[2] + (c2 \div LimbBase)
        n  == 100 * a[1] + (c3 \div LimbBase)
    IN  IF 2 * (c3 % LimbBase) >= LimbBase THEN n + 1 ELSE n

Max(a, b) == IF a >= b THEN a ELSE b

(***************************************************************************)
(* services/progress.py: calculate_next_review                             *)
(***************************************************************************)
\* calculate_next_review with the ease floor left out of its "again" and
\* "hard" branches
calculate_next_review_NoFloor(current_interval, ease_factor, rating) ==
    IF rating = "mastered" THEN <<0, ease_factor, TRUE>>
    ELSE IF rating = "again"
    THEN <<1, FloatSub(ease_factor, Float_0_2), FALSE>>
    ELSE IF current_interval = 0
    THEN <<(IF rating = "hard" THEN 1 ELSE 3), ease_factor, FALSE>>
    ELSE IF rating = "hard"
    THEN <<Max(current_interval + 1, IntMul(current_interval, Float_1_2)),
           FloatSub(ease_factor, Float_0_15), FALSE>>
    ELSE LET new_interval ==
                 Max(current_interval + 1, IntMul(current_interval, ease_factor))
         IN  <<new_interval, ease_factor, new_interval >= MASTERY_THRESHOLD_DAYS>>

\* calculate_next_review without the fixed intervals of a first review
calculate_next_review_NoFirstReview(current_interval, ease_factor, rating) ==
    IF rating = "mastered" THEN <<0, ease_factor, TRUE>>
    ELSE IF rating = "again"
    THEN <<1, FloatMax(MIN_EASE_FACTOR, FloatSub(ease_factor, Float_0_2)), FALSE>>
    ELSE IF rating = "hard"
    THEN <<Max(current_interval + 1, IntMul(current_interval, Float_1_2)),
           FloatMax(MIN_EASE_FACTOR, FloatSub(ease_factor, Float_0_15)), FALSE>>
    ELSE LET new_interval ==
                 Max(current_interval + 1, IntMul(current_interval, ease_factor))
         IN  <<new_interval, ease_factor, new_interval >= MASTERY_THRESHOLD_DAYS>>

\* calculate_next_review whose "again" branch keeps the interval
calculate_next_review_AgainKeepsInterval(current_interval, ease_factor, rating) ==
    IF rating = "mastered" THEN <<0, ease_factor, TRUE>>
    ELSE IF rating = "again"
    THEN <<current_interval,
           FloatMax(MIN_EASE_FACTOR, FloatSub(ease_factor, Float_0_2)), FALSE>>
    ELSE IF current_interval = 0
    THEN <<(IF rating = "hard" THEN 1 ELSE 3), ease_factor, FALSE>>
    ELSE IF rating = "hard"
    THEN <<Max(current_interval + 1, IntMul(current_interval, Float_1_2)),
           FloatMax(MIN_EASE_FACTOR, FloatSub(ease_factor, Float_0_15)), FALSE>>
    ELSE LET new_interval ==
                 Max(current_interval + 1, IntMul(current_interval, ease_factor))
         IN  <<new_interval, ease_factor, new_interval >= MASTERY_THRESHOLD_DAYS>>

\* calculate_next_review whose "mastered" branch keeps the interval
calculate_next_review_MasteredKeepsInterval(current_interval, ease_factor, rating) ==
    IF rating = "mastered" THEN <<current_interval, ease_factor, TRUE>>
    ELSE IF rating = "again"
    THEN <<1, FloatMax(MIN_EASE_FACTOR, FloatSub(ease_factor, Float_0_2)), FALSE>>
    ELSE IF current_interval = 0
    THEN <<(IF rating = "hard" THEN 1 ELSE 3), ease_factor, FALSE>>
    ELSE IF rating = "hard"
    THEN <<Max(current_interval + 1, IntMul(current_interval, Float_1_2)),
           FloatMax(MIN_EASE_FACTOR, FloatSub(ease_factor, Float_0_15)), FALSE>>
    ELSE LET new_interval ==
                 Max(current_interval + 1, IntMul(current_interval, ease_factor))
         IN  <<new_interval, ease_factor, new_interval >= MASTERY_THRESHOLD_DAYS>>

\* calculate_next_review whose "good" branch leaves out the growth of at
\* least one day
calculate_next_review_GoodNoGrowth(current_interval, ease_factor, rating) ==
    IF rating = "mastered" THEN <<0, ease_factor, TRUE>>
    ELSE IF rating = "again"
    THEN <<1, FloatMax(MIN_EASE_FACTOR, FloatSub(ease_factor, Float_0_2)), FALSE>>
    ELSE IF current_interval = 0
    THEN <<(IF rating = "hard" THEN 1 ELSE 3), ease_factor, FALSE>>
    ELSE IF rating = "hard"
    THEN <<Max(current_interval + 1, IntMul(current_interval, Float_1_2)),
           FloatMax(MIN_EASE_FACTOR, FloatSub(ease_factor, Float_0_15)), FALSE>>
    ELSE LET new_interval == IntMul(current_interval, ease_factor)
         IN  <<new_interval, ease_factor, new_interval >= MASTERY_THRESHOLD_DAYS>>

\* calculate_next_review whose "hard" branch leaves out the growth of at
\* least one day
calculate_next_review_HardNoGrowth(current_interval, ease_factor, rating) ==
    IF rating = "mastered" THEN <<0, ease_factor, TRUE>>
    ELSE IF rating = "again"
    THEN <<1, FloatMax(MIN_EASE_FACTOR, FloatSub(ease_factor, Float_0_2)), FALSE>>
    ELSE IF current_interval = 0
    THEN <<(IF rating = "hard" THEN 1 ELSE 3), ease_factor, FALSE>>
    ELSE IF rating = "hard"
    THEN <<IntMul(current_interval, Float_1_2),
           FloatMax(MIN_EASE_FACTOR, FloatSub(ease_factor, Float_0_15)), FALSE>>
    ELSE LET new_interval ==
                 Max(current_interval + 1, IntMul(current_interval, ease_factor))
         IN  <<new_interval, ease_factor, new_interval >= MASTERY_THRESHOLD_DAYS>>

calculate_next_review(current_interval, ease_factor, rating) ==
    IF rating = "mastered" THEN <<0, ease_factor, TRUE>>
    ELSE IF rating = "again"
    THEN <<1, FloatMax(MIN_EASE_FACTOR, FloatSub(ease_factor, Float_0_2)), FALSE>>
    ELSE IF current_interval = 0
    THEN <<(IF rating = "hard" THEN 1 ELSE 3), ease_factor, FALSE>>
    ELSE IF rating = "hard"
    THEN <<Max(current_interval + 1, IntMul(current_interval, Float_1_2)),
           FloatMax(MIN_EASE_FACTOR, FloatSub(ease_factor, Float_0_15)), FALSE>>
    ELSE LET new_interval ==
                 Max(current_interval + 1, IntMul(current_interval, ease_factor))
         IN  <<new_interval, ease_factor, new_interval >= MASTERY_THRESHOLD_DAYS>>

(***************************************************************************)
(* Bounds and inputs                                                       *)
(***************************************************************************)
\* last UTC day of a run (days are numbered from 0)
MaxDay == 1

\* ratings applied in a run of the requests (caps the sum of review_count)
MaxReviews == 2

\* ratings applied in a run of the service calls on one entry
MaxDeepReviews == 7

\* largest current_interval calculate_next_review is called with on its own
MaxInterval == 40

\* test cases of every seeded problem
TestCaseCount == 2

Users == {"u1", "u2"}

\* the seeded problems with their sequence_number (unique); ids and sequence
\* numbers are ordered differently
SeededProblems == [p1 |-> 2, p2 |-> 1, p3 |-> 3]

\* request bodies: the four ratings and one string that is none of them
RatingInputs == VALID_RATINGS \cup {"easy"}

\* the two request slots (one SQLAlchemy session each, db/connection.py get_db)
Sessions == {1, 2}

\* SQL NULL / Python None in an integer or date column
NULL == 0 - 1

\* no row (scalar_one_or_none() returned None)
NoRow == [id |-> NULL]

\* no problem (new_problem is None)
NoProblem == "none"

VARIABLES
    today,      \* _utc_date(): the current UTC date, as a day number
    catalog,    \* problems table: problem id -> sequence_number
    ledger,     \* user_progress table: a set of rows
    session     \* per request slot: the request in flight or its response

vars == <<today, catalog, ledger, session>>

\* db/tables.py UserProgress: a transient object as update_user_progress
\* builds it (id is assigned at INSERT)
UserProgress(user_id, problem_id) ==
    [id |-> 0, user_id |-> user_id, problem_id |-> problem_id,
     times_solved |-> 0, last_solved_at |-> NULL, next_review_date |-> NULL,
     is_mastered |-> FALSE, show_again |-> FALSE,
     ease_factor |-> DEFAULT_EASE_FACTOR, interval_days |-> 0,
     review_count |-> 0]

\* select(UserProgress).where(user_id == ...).where(problem_id == ...)
Lookup(led, user_id, problem_id) ==
    {row \in led : row.user_id = user_id /\ row.problem_id = problem_id}

\* the primary key of a newly inserted row
NewId(led) ==
    CHOOSE n \in 1..(Cardinality(led) + 1) :
        /\ \A row \in led : row.id # n
        /\ \A m \in 1..(n - 1) : \E row \in led : row.id = m

\* the index on (user_id, problem_id) declared without unique=True
UniqueIndexAllows_NotUnique(led, row) == TRUE

\* ix_user_progress_user_problem (unique): may a row for the pair be inserted?
UniqueIndexAllows(led, row) == Lookup(led, row.user_id, row.problem_id) = {}

\* Session.flush() of one loaded object: UPDATE user_progress SET <the
\* attributes whose value differs from the loaded one> WHERE id = <loaded id>
FlushUpdate(led, loaded, object) ==
    LET cur == CHOOSE row \in led : row.id = loaded.id
        new == [f \in DOMAIN cur |->
                   IF object[f] # loaded[f] THEN object[f] ELSE cur[f]]
    IN  (led \ {cur}) \cup {new}

\* Session.flush() of one new object: INSERT INTO user_progress
FlushInsert(led, object) == led \cup {[object EXCEPT !.id = NewId(led)]}

(***************************************************************************)
(* services/progress.py                                                    *)
(***************************************************************************)
\* update_user_progress without its early return for a failing submission
update_user_progress_IgnoresPassed(rows, user_id, problem_id, passed, day) ==
    IF rows = {}
    THEN [ret |-> [needs_rating |-> TRUE, times_solved |-> 0,
                   is_mastered |-> FALSE, next_review_date |-> NULL,
                   interval_days |-> 0,
                   ease_factor |-> Round2(DEFAULT_EASE_FACTOR)],
          loaded |-> NoRow,
          object |-> UserProgress(user_id, problem_id)]
    ELSE LET progress == CHOOSE row \in rows : TRUE
             is_due == \/ progress.next_review_date = NULL
                       \/ progress.next_review_date <= day
         IN  IF progress.is_mastered /\ ~progress.show_again
             THEN [ret |-> [needs_rating |-> FALSE,
                            times_solved |-> progress.times_solved,
                            is_mastered |-> TRUE, next_review_date |-> NULL,
                            interval_days |-> progress.interval_days,
                            ease_factor |-> Round2(progress.ease_factor)],
                   loaded |-> progress, object |-> progress]
             ELSE [ret |-> [needs_rating |-> is_due,
                            times_solved |-> progress.times_solved,
                            is_mastered |-> progress.is_mastered,
                            next_review_date |-> progress.next_review_date,
                            interval_days |-> progress.interval_days,
                            ease_factor |-> Round2(progress.ease_factor)],
                   loaded |-> progress, object |-> progress]

\* update_user_progress counting every passing submission of an existing
\* entry in times_solved
update_user_progress_CountsResolve(rows, user_id, problem_id, passed, day) ==
    IF ~passed
    THEN [ret |-> [needs_rating |-> FALSE], loaded |-> NoRow, object |-> NoRow]
    ELSE IF rows = {}
    THEN [ret |-> [needs_rating |-> TRUE, times_solved |-> 0,
                   is_mastered |-> FALSE, next_review_date |-> NULL,
                   interval_days |-> 0,
                   ease_factor |-> Round2(DEFAULT_EASE_FACTOR)],
          loaded |-> NoRow,
          object |-> UserProgress(user_id, problem_id)]
    ELSE LET progress == CHOOSE row \in rows : TRUE
             solved == [progress EXCEPT !.times_solved = @ + 1]
             is_due == \/ progress.next_review_date = NULL
                       \/ progress.next_review_date <= day
         IN  IF progress.is_mastered /\ ~progress.show_again
             THEN [ret |-> [needs_rating |-> FALSE,
                            times_solved |-> solved.times_solved,
                            is_mastered |-> TRUE, next_review_date |-> NULL,
                            interval_days |-> progress.interval_days,
                            ease_factor |-> Round2(progress.ease_factor)],
                   loaded |-> progress, object |-> solved]
             ELSE [ret |-> [needs_rating |-> is_due,
                            times_solved |-> solved.times_solved,
                            is_mastered |-> progress.is_mastered,
                            next_review_date |-> progress.next_review_date,
                            interval_days |-> progress.interval_days,
                            ease_factor |-> Round2(progress.ease_factor)],
                   loaded |-> progress, object |-> solved]

\* update_user_progress taking an entry as due only after its review date
update_user_progress_StrictlyOverdue(rows, user_id, problem_id, passed, day) ==
    IF ~passed
    THEN [ret |-> [needs_rating |-> FALSE], loaded |-> NoRow, object |-> NoRow]
    ELSE IF rows = {}
    THEN [ret |-> [needs_rating |-> TRUE, times_solved |-> 0,
                   is_mastered |-> FALSE, next_review_date |-> NULL,
                   interval_days |-> 0,
                   ease_factor |-> Round2(DEFAULT_EASE_FACTOR)],
          loaded |-> NoRow,
          object |-> UserProgress(user_id, problem_id)]
    ELSE LET progress == CHOOSE row \in rows : TRUE
             is_due == \/ progress.next_review_date = NULL
                       \/ progress.next_review_date < day
         IN  IF progress.is_mastered /\ ~progress.show_again
             THEN [ret |-> [needs_rating |-> FALSE,
                            times_solved |-> progress.times_solved,
                            is_mastered |-> TRUE, next_review_date |-> NULL,
                            interval_days |-> progress.interval_days,
                            ease_factor |-> Round2(progress.ease_factor)],
                   loaded |-> progress, object |-> progress]
             ELSE [ret |-> [needs_rating |-> is_due,
                            times_solved |-> progress.times_solved,
                            is_mastered |-> progress.is_mastered,
                            next_review_date |-> progress.next_review_date,
                            interval_days |-> progress.interval_days,
                            ease_factor |-> Round2(progress.ease_factor)],
                   loaded |-> progress, object |-> progress]

\* update_user_progress counting the first solve when it creates the entry
update_user_progress_CountsSolve(rows, user_id, problem_id, passed, day) ==
    IF ~passed
    THEN [ret |-> [needs_rating |-> FALSE], loaded |-> NoRow, object |-> NoRow]
    ELSE IF rows = {}
    THEN [ret |-> [needs_rating |-> TRUE, times_solved |-> 1,
                   is_mastered |-> FALSE, next_review_date |-> NULL,
                   interval_days |-> 0,
                   ease_factor |-> Round2(DEFAULT_EASE_FACTOR)],
          loaded |-> NoRow,
          object |-> [UserProgress(user_id, problem_id) EXCEPT !.times_solved = 1]]
    ELSE LET progress == CHOOSE row \in rows : TRUE
             is_due == \/ progress.next_review_date = NULL
                       \/ progress.next_review_date <= day
         IN  IF progress.is_mastered /\ ~progress.show_again
             THEN [ret |-> [needs_rating |-> FALSE,
                            times_solved |-> progress.times_solved,
                            is_mastered |-> TRUE, next_review_date |-> NULL,
                            interval_days |-> progress.interval_days,
                            ease_factor |-> Round2(progress.ease_factor)],
                   loaded |-> progress, object |-> progress]
             ELSE [ret |-> [needs_rating |-> is_due,
                            times_solved |-> progress.times_solved,
                            is_mastered |-> progress.is_mastered,
                            next_review_date |-> progress.next_review_date,
                            interval_days |-> progress.interval_days,
                            ease_factor |-> Round2(progress.ease_factor)],
                   loaded |-> progress, object |-> progress]

\* update_user_progress: the returned dict (ret), the row its SELECT loaded
\* (loaded, NoRow if none) and the object it leaves in the session (object:
\* the loaded row after its assignments, or the row it adds).  rows is the
\* result of its SELECT.
update_user_progress(rows, user_id, problem_id, passed, day) ==
    IF ~passed
    THEN [ret |-> [needs_rating |-> FALSE], loaded |-> NoRow, object |-> NoRow]
    ELSE IF rows = {}
    THEN [ret |-> [needs_rating |-> TRUE, times_solved |-> 0,
                   is_mastered |-> FALSE, next_review_date |-> NULL,
                   interval_days |-> 0,
                   ease_factor |-> Round2(DEFAULT_EASE_FACTOR)],
          loaded |-> NoRow,
          object |-> UserProgress(user_id, problem_id)]
    ELSE LET progress == CHOOSE row \in rows : TRUE
             is_due == \/ progress.next_review_date = NULL
                       \/ progress.next_review_date <= day
         IN  IF progress.is_mastered /\ ~progress.show_again
             THEN [ret |-> [needs_rating |-> FALSE,
                            times_solved |-> progress.times_solved,
                            is_mastered |-> TRUE, next_review_date |-> NULL,
                            interval_days |-> progress.interval_days,
                            ease_factor |-> Round2(progress.ease_factor)],
                   loaded |-> progress, object |-> progress]
             ELSE [ret |-> [needs_rating |-> is_due,
                            times_solved |-> progress.times_solved,
                            is_mastered |-> progress.is_mastered,
                            next_review_date |-> progress.next_review_date,
                            interval_days |-> progress.interval_days,
                            ease_factor |-> Round2(progress.ease_factor)],
                   loaded |-> progress, object |-> progress]

\* apply_rating counting the review but not the solve
apply_rating_SkipsSolveCount(progress, rating, day) ==
    LET calc == calculate_next_review(progress.interval_days,
                                      progress.ease_factor, rating)
    IN  [progress EXCEPT
            !.interval_days = calc[1],
            !.ease_factor = calc[2],
            !.is_mastered = calc[3],
            !.review_count = progress.review_count + 1,
            !.last_solved_at = day,
            !.next_review_date = IF calc[3] THEN NULL ELSE day + calc[1]]

\* apply_rating setting next_review_date = today + interval on every path
apply_rating_KeepsDate(progress, rating, day) ==
    LET calc == calculate_next_review(progress.interval_days,
                                      progress.ease_factor, rating)
    IN  [progress EXCEPT
            !.interval_days = calc[1],
            !.ease_factor = calc[2],
            !.is_mastered = calc[3],
            !.review_count = progress.review_count + 1,
            !.times_solved = progress.times_solved + 1,
            !.last_solved_at = day,
            !.next_review_date = day + calc[1]]

\* apply_rating scheduling the next review on the day of the rating
apply_rating_DueToday(progress, rating, day) ==
    LET calc == calculate_next_review(progress.interval_days,
                                      progress.ease_factor, rating)
    IN  [progress EXCEPT
            !.interval_days = calc[1],
            !.ease_factor = calc[2],
            !.is_mastered = calc[3],
            !.review_count = progress.review_count + 1,
            !.times_solved = progress.times_solved + 1,
            !.last_solved_at = day,
            !.next_review_date = IF calc[3] THEN NULL ELSE day]

\* apply_rating, lines 465-483: the loaded object after the assignments
apply_rating(progress, rating, day) ==
    LET calc == calculate_next_review(progress.interval_days,
                                      progress.ease_factor, rating)
        new_interval == calc[1]
        new_ease == calc[2]
        is_mastered == calc[3]
    IN  [progress EXCEPT
            !.interval_days = new_interval,
            !.ease_factor = new_ease,
            !.is_mastered = is_mastered,
            !.review_count = progress.review_count + 1,
            !.times_solved = progress.times_solved + 1,
            !.last_solved_at = day,
            !.next_review_date =
                IF is_mastered THEN NULL ELSE day + new_interval]

\* apply_rating, lines 496-503: the returned dict
rating_result(progress) ==
    [interval_days |-> progress.interval_days,
     ease_factor |-> Round2(progress.ease_factor),
     next_review_date |-> progress.next_review_date,
     is_mastered |-> progress.is_mastered,
     review_count |-> progress.review_count,
     times_solved |-> progress.times_solved]

\* mark_show_again resuming the learning curve: interval_days and ease_factor
\* are not reset
mark_show_again_KeepsCurve(progress, day) ==
    [progress EXCEPT
        !.show_again = TRUE,
        !.is_mastered = FALSE,
        !.next_review_date = day]

\* mark_show_again, lines 410-415: the loaded object after the assignments
mark_show_again(progress, day) ==
    [progress EXCEPT
        !.show_again = TRUE,
        !.is_mastered = FALSE,
        !.next_review_date = day,
        !.interval_days = 0,
        !.ease_factor = DEFAULT_EASE_FACTOR]

\* get_todays_problems, first query: the rows the WHERE clause keeps
ReviewCandidates(led, user_id, day) ==
    {row \in led : /\ row.user_id = user_id
                   /\ row.is_mastered = FALSE
                   /\ row.next_review_date # NULL
                   /\ row.next_review_date <= day}

\* the review query with LIMIT 2 and no ORDER BY
ReviewResults_NoOrder(led, user_id, day) ==
    LET cand == {row \in led : /\ row.user_id = user_id
                               /\ row.is_mastered = FALSE
                               /\ row.next_review_date # NULL
                               /\ row.next_review_date <= day}
        n == IF Cardinality(cand) < 2 THEN Cardinality(cand) ELSE 2
    IN  {s \in [1..n -> cand] : \A i, j \in 1..n : i < j => s[i] # s[j]}

\* ORDER BY next_review_date ASC LIMIT 2: every result the database may
\* return (rows with equal dates come in any order)
ReviewResults(led, user_id, day) ==
    LET cand == ReviewCandidates(led, user_id, day)
        n == IF Cardinality(cand) < 2 THEN Cardinality(cand) ELSE 2
    IN  {s \in [1..n -> cand] :
            /\ \A i, j \in 1..n : i < j =>
                   /\ s[i] # s[j]
                   /\ s[i].next_review_date <= s[j].next_review_date
            /\ \A row \in cand : (\A i \in 1..n : s[i] # row) =>
                   \A i \in 1..n : s[i].next_review_date <= row.next_review_date}

\* the new-problem query without its WHERE user_id == ... in the subquery
NewProblem_AnyUser(led, cat, user_id) ==
    LET taken == {row.problem_id : row \in led}
        open == DOMAIN cat \ taken
    IN  IF open = {} THEN NoProblem
        ELSE CHOOSE p \in open : \A o \in open : cat[p] <= cat[o]

\* get_todays_problems, second query: the problem with the lowest
\* sequence_number that has no user_progress row of the user
NewProblem(led, cat, user_id) ==
    LET taken == {row.problem_id : row \in {x \in led : x.user_id = user_id}}
        open == DOMAIN cat \ taken
    IN  IF open = {} THEN NoProblem
        ELSE CHOOSE p \in open : \A o \in open : cat[p] <= cat[o]

(***************************************************************************)
(* Requests.  A slot is idle, in flight (pc names the next step) or holds  *)
(* the response of its last request (pc = "done").                         *)
(***************************************************************************)
Free(r) == session[r].pc \in {"idle", "done"}

Respond(r, op, args, status, body) ==
    session' = [session EXCEPT ![r] =
        [pc |-> "done", op |-> op, args |-> args, status |-> status,
         body |-> body]]

Continue(r, pc, op, args, loaded, object, ret) ==
    session' = [session EXCEPT ![r] =
        [pc |-> pc, op |-> op, args |-> args, loaded |-> loaded,
         object |-> object, ret |-> ret]]

\* submit_code: progress_info = {} when the tests did not all pass
NoProgressInfo == [k \in {} |-> NULL]

\* What Judge0 answers to a submission: its status id (3 Accepted, 5 Time
\* Limit Exceeded, 6 Compilation Error, 11 Runtime Error) and the stdout of
\* the run: nothing, text that is not JSON, or a JSON list whose i-th element
\* carries the "passed" flag flags[i].
Judge0StatusIds == {3, 5, 6, 11}

Judge0Results ==
    [status_id : Judge0StatusIds, stdout : {"empty", "invalid"},
     flags : {<<>>}]
    \cup {[status_id |-> id, stdout |-> "json", flags |-> f] :
              id \in Judge0StatusIds,
              f \in UNION {[1..n -> BOOLEAN] : n \in 0..TestCaseCount}}

\* number of TRUE flags
RECURSIVE passed_count(_)
passed_count(flags) ==
    IF flags = <<>> THEN 0
    ELSE (IF Head(flags) THEN 1 ELSE 0) + passed_count(Tail(flags))

\* _parse_execution_results: test_cases is the number of test cases
parse_execution_results(judge0_result, test_cases) ==
    LET failure == [success |-> FALSE, results |-> <<>>,
                    summary |-> [total |-> test_cases, passed |-> 0,
                                 failed |-> test_cases]]
        \* json.loads(stdout) if stdout else []
        test_results == IF judge0_result.stdout = "empty" THEN <<>>
                        ELSE judge0_result.flags
    IN  IF judge0_result.status_id = 6 THEN failure
        ELSE IF judge0_result.status_id \in {11, 12, 13} THEN failure
        ELSE IF judge0_result.stdout = "invalid" THEN failure
        ELSE [success |-> passed_count(test_results) = Len(test_results),
              results |-> test_results,
              summary |-> [total |-> Len(test_results),
                           passed |-> passed_count(test_results),
                           failed |-> Len(test_results)
                                          - passed_count(test_results)]]

\* the wrapper ran to its end and every test passed
PassingRun ==
    parse_execution_results(
        [status_id |-> 3, stdout |-> "json",
         flags |-> [i \in 1..TestCaseCount |-> TRUE]], TestCaseCount)

\* the wrapper stopped at the first test, which failed (early_exit)
FailingRun ==
    parse_execution_results(
        [status_id |-> 3, stdout |-> "json", flags |-> <<FALSE>>],
        TestCaseCount)

\* submit_code: the fields of SubmitCodeResponse.  needs_rating is
\* progress_info.get("needs_rating", False); each other Anki field is
\* progress_info.get(<field>), None when progress_info lacks the key, so
\* progress_info is kept as it is.
SubmitCodeResponse(execution_result, progress_info) ==
    [success |-> execution_result.success,
     results |-> execution_result.results,
     summary |-> execution_result.summary,
     total_test_cases |-> TestCaseCount,
     needs_rating |-> IF "needs_rating" \in DOMAIN progress_info
                      THEN progress_info.needs_rating ELSE FALSE,
     progress_info |-> progress_info]

\* POST /api/submit up to db.commit(): execution_result is what
\* _execute_code_with_wrapper returned; a run with success = true calls
\* update_user_progress
submit_code(r, user_id, problem_id, execution_result) ==
    /\ Free(r)
    /\ problem_id \in DOMAIN catalog
    /\ LET all_passed == execution_result.success
           args == [user_id |-> user_id, problem_id |-> problem_id,
                    all_passed |-> all_passed,
                    execution_result |-> execution_result]
           rows == Lookup(ledger, user_id, problem_id)
           upd == update_user_progress(rows, user_id, problem_id, TRUE, today)
       IN  IF ~all_passed
           THEN Continue(r, "commit", "submit_code", args, NoRow, NoRow,
                         NoProgressInfo)
           ELSE IF Cardinality(rows) > 1
           THEN Respond(r, "submit_code", args, 500, <<>>)
           ELSE Continue(r, "commit", "submit_code", args, upd.loaded,
                         upd.object, upd.ret)
    /\ UNCHANGED <<today, catalog, ledger>>

\* submit_code from db.commit() on
submit_code_commit(r) ==
    /\ session[r].pc = "commit"
    /\ session[r].op = "submit_code"
    /\ LET s == session[r]
       IN  IF s.object = NoRow
           THEN /\ Respond(r, s.op, s.args, 200,
                           SubmitCodeResponse(s.args.execution_result, s.ret))
                /\ UNCHANGED ledger
           ELSE IF s.loaded # NoRow
           THEN /\ ledger' = FlushUpdate(ledger, s.loaded, s.object)
                /\ Respond(r, s.op, s.args, 200,
                           SubmitCodeResponse(s.args.execution_result, s.ret))
           ELSE IF UniqueIndexAllows(ledger, s.object)
           THEN /\ ledger' = FlushInsert(ledger, s.object)
                /\ Respond(r, s.op, s.args, 200,
                           SubmitCodeResponse(s.args.execution_result, s.ret))
           ELSE /\ Respond(r, s.op, s.args, 500, <<>>)
                /\ UNCHANGED ledger
    /\ UNCHANGED <<today, catalog>>

\* rate_submission creating the entry when the pair has none
rate_submission_Upsert(r, user_id, problem_id, rating) ==
    /\ Free(r)
    /\ problem_id \in DOMAIN catalog
    /\ LET args == [user_id |-> user_id, problem_id |-> problem_id,
                    rating |-> rating]
           rows == Lookup(ledger, user_id, problem_id)
           progress == CHOOSE row \in rows : TRUE
           created == apply_rating(UserProgress(user_id, problem_id), rating,
                                   today)
       IN  IF rating \notin VALID_RATINGS
           THEN /\ Respond(r, "rate_submission", args, 400, <<>>)
                /\ UNCHANGED ledger
           ELSE IF rows = {}
           THEN /\ ledger' = FlushInsert(ledger, created)
                /\ Respond(r, "rate_submission", args, 200,
                           rating_result(created))
           ELSE /\ Continue(r, "commit", "rate_submission", args, progress,
                            apply_rating(progress, rating, today),
                            rating_result(apply_rating(progress, rating, today)))
                /\ UNCHANGED ledger
    /\ UNCHANGED <<today, catalog>>

\* POST /api/rate-submission up to db.commit()
rate_submission(r, user_id, problem_id, rating) ==
    /\ Free(r)
    /\ problem_id \in DOMAIN catalog
    /\ LET args == [user_id |-> user_id, problem_id |-> problem_id,
                    rating |-> rating]
           rows == Lookup(ledger, user_id, problem_id)
           progress == CHOOSE row \in rows : TRUE
       IN  IF rating \notin VALID_RATINGS
           THEN Respond(r, "rate_submission", args, 400, <<>>)
           ELSE IF rows = {}
           THEN Respond(r, "rate_submission", args, 400, <<>>)
           ELSE IF Cardinality(rows) > 1
           THEN Respond(r, "rate_submission", args, 500, <<>>)
           ELSE Continue(r, "commit", "rate_submission", args, progress,
                         apply_rating(progress, rating, today),
                         rating_result(apply_rating(progress, rating, today)))
    /\ UNCHANGED <<today, catalog, ledger>>

\* POST /api/rate-submission, db.commit() and the response
rate_submission_commit(r) ==
    /\ session[r].pc = "commit"
    /\ session[r].op = "rate_submission"
    /\ LET s == session[r]
       IN  /\ ledger' = FlushUpdate(ledger, s.loaded, s.object)
           /\ Respond(r, s.op, s.args, 200, s.ret)
    /\ UNCHANGED <<today, catalog>>

\* show_again without the check that the entry is mastered
show_again_AnyEntry(r, user_id, problem_id) ==
    /\ Free(r)
    /\ problem_id \in DOMAIN catalog
    /\ LET args == [user_id |-> user_id, problem_id |-> problem_id]
           rows == Lookup(ledger, user_id, problem_id)
           progress == CHOOSE row \in rows : TRUE
       IN  IF rows = {}
           THEN Respond(r, "show_again", args, 400, <<>>)
           ELSE Continue(r, "commit", "show_again", args, progress,
                         mark_show_again(progress, today), <<>>)
    /\ UNCHANGED <<today, catalog, ledger>>

\* POST /api/mastered/{problem_id}/show-again up to db.commit()
show_again(r, user_id, problem_id) ==
    /\ Free(r)
    /\ problem_id \in DOMAIN catalog
    /\ LET args == [user_id |-> user_id, problem_id |-> problem_id]
           rows == Lookup(ledger, user_id, problem_id)
           progress == CHOOSE row \in rows : TRUE
       IN  IF rows = {}
           THEN Respond(r, "show_again", args, 400, <<>>)
           ELSE IF Cardinality(rows) > 1
           THEN Respond(r, "show_again", args, 500, <<>>)
           ELSE IF ~progress.is_mastered
           THEN Respond(r, "show_again", args, 400, <<>>)
           ELSE Continue(r, "commit", "show_again", args, progress,
                         mark_show_again(progress, today), <<>>)
    /\ UNCHANGED <<today, catalog, ledger>>

\* POST /api/mastered/{problem_id}/show-again, db.commit() and the response
show_again_commit(r) ==
    /\ session[r].pc = "commit"
    /\ session[r].op = "show_again"
    /\ LET s == session[r]
       IN  /\ ledger' = FlushUpdate(ledger, s.loaded, s.object)
           /\ Respond(r, s.op, s.args, 200, <<>>)
    /\ UNCHANGED <<today, catalog>>

\* GET /api/today, get_todays_problems: the review query
get_today(r, user_id) ==
    /\ Free(r)
    /\ \E review \in ReviewResults(ledger, user_id, today) :
           Continue(r, "query2", "get_today",
                    [user_id |-> user_id, today |-> today], NoRow, NoRow,
                    review)
    /\ UNCHANGED <<today, catalog, ledger>>

\* GET /api/today, get_todays_problems: the new-problem query and the return
get_today_new_problem(r) ==
    /\ session[r].pc = "query2"
    /\ LET s == session[r]
       IN  Respond(r, s.op, s.args, 200,
                   [review |-> s.ret,
                    new_problem |-> NewProblem(ledger, catalog, s.args.user_id)])
    /\ UNCHANGED <<today, catalog, ledger>>

\* midnight UTC
Tick ==
    /\ today < MaxDay
    /\ today' = today + 1
    /\ UNCHANGED <<catalog, ledger, session>>

(***************************************************************************)
(* The service functions called one at a time, each in its own transaction *)
(* that commits before the next call starts.  Slot 1 keeps the last call:  *)
(* its arguments with the day it ran on, what it returned (body) and       *)
(* whether it returned (status 200) or raised ValueError (status 400, the  *)
(* code the routes answer it with).                                        *)
(***************************************************************************)
call_update_user_progress(user_id, problem_id, passed) ==
    /\ problem_id \in DOMAIN catalog
    /\ LET args == [user_id |-> user_id, problem_id |-> problem_id,
                    passed |-> passed, today |-> today]
           rows == Lookup(ledger, user_id, problem_id)
           upd == update_user_progress(rows, user_id, problem_id, passed, today)
       IN  /\ Cardinality(rows) <= 1
           /\ ledger' = IF upd.object = NoRow THEN ledger
                        ELSE IF upd.loaded # NoRow
                        THEN FlushUpdate(ledger, upd.loaded, upd.object)
                        ELSE FlushInsert(ledger, upd.object)
           /\ Respond(1, "update_user_progress", args, 200, upd.ret)
    /\ UNCHANGED <<today, catalog>>

call_apply_rating(user_id, problem_id, rating) ==
    /\ problem_id \in DOMAIN catalog
    /\ LET args == [user_id |-> user_id, problem_id |-> problem_id,
                    rating |-> rating, today |-> today]
           rows == Lookup(ledger, user_id, problem_id)
           progress == CHOOSE row \in rows : TRUE
       IN  /\ Cardinality(rows) <= 1
           /\ IF rating \notin VALID_RATINGS \/ rows = {}
              THEN /\ ledger' = ledger
                   /\ Respond(1, "apply_rating", args, 400, <<>>)
              ELSE /\ ledger' = FlushUpdate(ledger, progress,
                                            apply_rating(progress, rating, today))
                   /\ Respond(1, "apply_rating", args, 200,
                              rating_result(apply_rating(progress, rating,
                                                         today)))
    /\ UNCHANGED <<today, catalog>>

call_mark_show_again(user_id, problem_id) ==
    /\ problem_id \in DOMAIN catalog
    /\ LET args == [user_id |-> user_id, problem_id |-> problem_id,
                    today |-> today]
           rows == Lookup(ledger, user_id, problem_id)
           progress == CHOOSE row \in rows : TRUE
       IN  /\ Cardinality(rows) <= 1
           /\ IF rows = {} \/ ~progress.is_mastered
              THEN /\ ledger' = ledger
                   /\ Respond(1, "mark_show_again", args, 400, <<>>)
              ELSE /\ ledger' = FlushUpdate(ledger, progress,
                                            mark_show_again(progress, today))
                   /\ Respond(1, "mark_show_again", args, 200, <<>>)
    /\ UNCHANGED <<today, catalog>>

(***************************************************************************)
(* Specifications                                                          *)
(***************************************************************************)
RECURSIVE TotalReviews(_)
\* the sum of review_count over a set of rows
TotalReviews(rows) ==
    IF rows = {} THEN 0
    ELSE LET row == CHOOSE x \in rows : TRUE
         IN  row.review_count + TotalReviews(rows \ {row})

Idle == [pc |-> "idle"]

InitWith(problems) ==
    /\ today = 0
    /\ catalog = [p \in problems |-> SeededProblems[p]]
    /\ ledger = {}
    /\ session = [r \in Sessions |-> Idle]

\* Requests served one at a time: one user's requests on two problems.
Init == InitWith({"p1", "p2"})

Next ==
    \/ \E p \in DOMAIN catalog, e \in {PassingRun, FailingRun} :
           submit_code(1, "u1", p, e)
    \/ submit_code_commit(1)
    \/ \E p \in DOMAIN catalog, x \in RatingInputs :
           TotalReviews(ledger) < MaxReviews /\ rate_submission(1, "u1", p, x)
    \/ rate_submission_commit(1)
    \/ \E p \in DOMAIN catalog : show_again(1, "u1", p)
    \/ show_again_commit(1)
    \/ get_today(1, "u1")
    \/ get_today_new_problem(1)
    \/ Tick

Spec == Init /\ [][Next]_vars

\* Service calls of one user on one problem, one at a time: the user solves,
\* rates and re-enrolls it.
LedgerInit == InitWith({"p1"})

LedgerNext ==
    \/ \E b \in BOOLEAN : call_update_user_progress("u1", "p1", b)
    \/ \E x \in RatingInputs :
           TotalReviews(ledger) < MaxDeepReviews /\ call_apply_rating("u1", "p1", x)
    \/ call_mark_show_again("u1", "p1")
    \/ Tick

LedgerSpec == LedgerInit /\ [][LedgerNext]_vars

\* calculate_next_review on its own, on the (interval_days, ease_factor) pairs
\* an entry can hold: a new entry's (0, 2.5), then what an earlier call
\* returned, and (0, 2.5) again once a mastered entry is re-enrolled.  Slot 1
\* keeps the last call with the tuple it returned.
entry_interval_days ==
    IF session[1].pc = "idle" THEN 0 ELSE session[1].body[1]

entry_ease_factor ==
    IF session[1].pc = "idle" THEN DEFAULT_EASE_FACTOR ELSE session[1].body[2]

call_calculate_next_review(rating) ==
    /\ entry_interval_days <= MaxInterval
    /\ Respond(1, "calculate_next_review",
               [current_interval |-> entry_interval_days,
                ease_factor |-> entry_ease_factor, rating |-> rating],
               200,
               calculate_next_review(entry_interval_days, entry_ease_factor,
                                     rating))
    /\ UNCHANGED <<today, catalog, ledger>>

\* mark_show_again on a mastered entry: interval_days = 0, ease_factor = 2.5
reset_entry ==
    /\ session[1].pc = "done"
    /\ session[1].body[3]
    /\ session' = [session EXCEPT ![1] = Idle]
    /\ UNCHANGED <<today, catalog, ledger>>

CalcInit == InitWith({"p1"})

CalcNext ==
    \/ \E x \in VALID_RATINGS : call_calculate_next_review(x)
    \/ reset_entry

CalcSpec == CalcInit /\ [][CalcNext]_vars

\* Submissions of one user served one at a time, on every answer Judge0 can
\* give.
JudgeInit == InitWith({"p1", "p2"})

JudgeNext ==
    \/ \E p \in DOMAIN catalog, j \in Judge0Results :
           submit_code(1, "u1", p, parse_execution_results(j, TestCaseCount))
    \/ submit_code_commit(1)
    \/ Tick

JudgeSpec == JudgeInit /\ [][JudgeNext]_vars

\* An entry brought to any (interval_days, ease_factor) it can hold by
\* arbitrary ratings, then rated "good" at every review from some review on.
\* A review of that second phase is recorded with op = "good_review"; the
\* phase ends when the entry is mastered.
good_review ==
    /\ session[1].pc = "done" => ~session[1].body[3]
    /\ Respond(1, "good_review",
               [current_interval |-> entry_interval_days,
                ease_factor |-> entry_ease_factor, rating |-> "good"],
               200,
               calculate_next_review(entry_interval_days, entry_ease_factor,
                                     "good"))
    /\ UNCHANGED <<today, catalog, ledger>>

GoodInit == InitWith({"p1"})

GoodNext ==
    \/ /\ session[1].pc = "done" => session[1].op = "calculate_next_review"
       /\ CalcNext
    \/ good_review

\* the user keeps reviewing: a review that can be made is made
GoodSpec == GoodInit /\ [][GoodNext]_vars /\ WF_vars(good_review)

\* Two requests of one user on one problem in flight at a time, within a day.
ConcInit == InitWith({"p1"})

ConcNext ==
    \E r \in Sessions :
        \/ submit_code(r, "u1", "p1", PassingRun)
        \/ submit_code_commit(r)
        \/ \E x \in VALID_RATINGS :
               TotalReviews(ledger) < MaxReviews /\ rate_submission(r, "u1", "p1", x)
        \/ rate_submission_commit(r)

ConcSpec == ConcInit /\ [][ConcNext]_vars

\* GET /api/today on every ledger built from these entries of the three seeded
\* problems: never solved, solved and not rated, rated on a day d, re-enrolled
\* on a day d after a "mastered" rating.
Rated(user_id, problem_id, rating, d) ==
    apply_rating(UserProgress(user_id, problem_id), rating, d)

Shown(user_id, problem_id, d) ==
    mark_show_again(Rated(user_id, problem_id, "mastered", d), d)

EntryShapes(days) ==
    {<<"none", 0>>, <<"fresh", 0>>}
        \cup ({"again", "mastered", "shown"} \X days)

EntryOf(user_id, problem_id, shape, id) ==
    LET row == IF shape[1] = "fresh" THEN UserProgress(user_id, problem_id)
               ELSE IF shape[1] = "shown"
               THEN Shown(user_id, problem_id, shape[2])
               ELSE Rated(user_id, problem_id, shape[1], shape[2])
    IN  [row EXCEPT !.id = id]

SelectorInit ==
    /\ today \in 0..MaxDay
    /\ catalog = SeededProblems
    /\ \E f1 \in [DOMAIN SeededProblems -> EntryShapes(0..today)],
          f2 \in [DOMAIN SeededProblems -> {<<"none", 0>>, <<"again", 0>>}] :
           ledger =
               {EntryOf("u1", p, f1[p], SeededProblems[p]) :
                    p \in {x \in DOMAIN SeededProblems : f1[x][1] # "none"}}
               \cup
               {EntryOf("u2", p, f2[p], 3 + SeededProblems[p]) :
                    p \in {x \in DOMAIN SeededProblems : f2[x][1] # "none"}}
    /\ session = [r \in Sessions |-> Idle]

SelectorNext ==
    \/ \E u \in Users : get_today(1, u)
    \/ get_today_new_problem(1)

SelectorSpec == SelectorInit /\ [][SelectorNext]_vars

(***************************************************************************)
(* Properties                                                              *)
(***************************************************************************)
\* C1: in every state reached by update_user_progress, apply_rating and
\* mark_show_again calls, a mastered entry has no next_review_date.
C1_MasteredHasNoReviewDate ==
    \A row \in ledger : row.is_mastered => row.next_review_date = NULL

\* an entry that had a review date and was mastered by a "good" rating
C1_Witness ==
    \E row \in ledger :
        /\ row.is_mastered
        /\ row.interval_days >= MASTERY_THRESHOLD_DAYS
        /\ row.next_review_date = NULL

\* C2 (as claimed): a mastered entry stays mastered through every request but
\* a successful show-again.
C2_MasteredUntilShowAgain ==
    [][\A row \in ledger : \A row2 \in ledger' :
          (row.is_mastered /\ row2.id = row.id /\ ~row2.is_mastered)
              => (session[1].pc = "commit" /\ session[1].op = "show_again")]_vars

\* C3: the ease factor of an entry never drops below 1.3, whatever ratings
\* and re-enrollments are applied to it.
C3_EaseFloor ==
    \A row \in ledger : ~FloatLess(row.ease_factor, MIN_EASE_FACTOR)

\* an entry re-enrolled once whose ease factor was lowered to the floor
C3_Witness ==
    \E row \in ledger :
        /\ row.ease_factor = MIN_EASE_FACTOR
        /\ row.show_again

\* C4: the ledger never holds two entries of one (user_id, problem_id), also
\* when two first passing submissions both read "no entry" before either
\* inserts.
C4_OneEntryPerPair ==
    \A row \in ledger : \A row2 \in ledger :
        (row.user_id = row2.user_id /\ row.problem_id = row2.problem_id)
            => row = row2

\* the second of two racing first submissions was refused by the unique index
C4_Witness ==
    /\ \E r \in Sessions :
           /\ session[r].pc = "done"
           /\ session[r].op = "submit_code"
           /\ session[r].status = 500
    /\ Cardinality(ledger) = 1

\* C5 (as claimed): when a rating commits after another rating that read the
\* same entry has committed, no update is lost: review_count and times_solved
\* end 2 higher than read, and interval_days and ease_factor are those of the
\* two ratings applied one after the other in some order.
C5_NoLostUpdate ==
    [][\A r \in Sessions : \A r2 \in Sessions \ {r} :
          (/\ session[r].pc = "commit"
           /\ session[r].op = "rate_submission"
           /\ session'[r].pc = "done"
           /\ session[r2].pc = "done"
           /\ session[r2].op = "rate_submission"
           /\ session[r2].status = 200
           /\ session[r2].body.review_count = session[r].loaded.review_count + 1)
          => LET read == session[r].loaded
                 a == session[r2].args.rating
                 b == session[r].args.rating
                 ab == apply_rating(apply_rating(read, a, today), b, today)
                 ba == apply_rating(apply_rating(read, b, today), a, today)
             IN  \A row \in ledger' : row.id = read.id =>
                     /\ row.review_count = read.review_count + 2
                     /\ row.times_solved = read.times_solved + 2
                     /\ \E x \in {ab, ba} :
                            /\ row.interval_days = x.interval_days
                            /\ row.ease_factor = x.ease_factor]_vars

\* C6: the new problem of get_todays_problems is the catalog problem with the
\* lowest sequence_number among those without a ledger entry of the user, and
\* none exactly when every catalog problem has one.
C6_NewProblemIsLowestUnattempted ==
    (session[1].pc = "done" /\ session[1].op = "get_today") =>
        LET u == session[1].args.user_id
            new == session[1].body.new_problem
            unattempted == {p \in DOMAIN catalog :
                               ~\E row \in ledger :
                                   row.user_id = u /\ row.problem_id = p}
        IN  /\ (new = NoProblem) <=> (unattempted = {})
            /\ new # NoProblem =>
                   /\ new \in unattempted
                   /\ \A p \in unattempted : catalog[new] <= catalog[p]

\* u1 gets p1 as new problem: p2 (lower sequence number) has an entry of u1,
\* p3 has none, and another user has an entry for p1
C6_Witness ==
    /\ session[1].pc = "done"
    /\ session[1].op = "get_today"
    /\ session[1].args.user_id = "u1"
    /\ session[1].body.new_problem = "p1"
    /\ \E row \in ledger : row.user_id = "u1" /\ row.problem_id = "p2"
    /\ \E row \in ledger : row.user_id = "u2" /\ row.problem_id = "p1"
    /\ ~\E row \in ledger : row.user_id = "u1" /\ row.problem_id = "p3"

\* C7: the review list of get_todays_problems has at most 2 entries, all of
\* them non-mastered entries of the user with next_review_date <= today, in
\* ascending order of next_review_date, and no entry left out has an earlier
\* date than an entry in the list.
C7_ReviewList ==
    (session[1].pc = "done" /\ session[1].op = "get_today") =>
        LET u == session[1].args.user_id
            day == session[1].args.today
            review == session[1].body.review
            listed == {review[i] : i \in 1..Len(review)}
        IN  /\ Len(review) <= 2
            /\ listed \subseteq ledger
            /\ \A row \in listed :
                   /\ row.user_id = u
                   /\ ~row.is_mastered
                   /\ row.next_review_date # NULL
                   /\ row.next_review_date <= day
            /\ \A i \in 1..Len(review) : \A j \in 1..Len(review) :
                   i < j => review[i].next_review_date <= review[j].next_review_date
            /\ \A row \in ledger \ listed :
                   (/\ row.user_id = u
                    /\ ~row.is_mastered
                    /\ row.next_review_date # NULL
                    /\ row.next_review_date <= day)
                   => \A x \in listed : x.next_review_date <= row.next_review_date

\* two reviews with different dates are returned and a third due entry of the
\* user is left out
C7_Witness ==
    /\ session[1].pc = "done"
    /\ session[1].op = "get_today"
    /\ Len(session[1].body.review) = 2
    /\ session[1].body.review[1].next_review_date
           < session[1].body.review[2].next_review_date
    /\ \E row \in ledger :
           /\ row.user_id = session[1].args.user_id
           /\ ~row.is_mastered
           /\ row.next_review_date # NULL
           /\ row.next_review_date <= session[1].args.today
           /\ row # session[1].body.review[1]
           /\ row # session[1].body.review[2]

\* C8 (as claimed): every due entry of the user (not mastered, next_review_date
\* null or <= today) is among the review problems of get_todays_problems, or 2
\* other due entries are.
C8_DueEntriesAreCandidates ==
    (session[1].pc = "done" /\ session[1].op = "get_today") =>
        LET u == session[1].args.user_id
            day == session[1].args.today
            review == session[1].body.review
            listed == {review[i] : i \in 1..Len(review)}
            due == {row \in ledger :
                       /\ row.user_id = u
                       /\ ~row.is_mastered
                       /\ (row.next_review_date = NULL
                              \/ row.next_review_date <= day)}
        IN  \A row \in due :
                row \in listed \/ (Cardinality(listed) = 2 /\ listed \subseteq due)

\* C9: a passing submission for a pair without ledger entry creates exactly one
\* entry, with ease_factor 2.5, interval_days 0, review_count 0, times_solved 0,
\* is_mastered false, show_again false and next_review_date null, and
\* update_user_progress returns needs_rating = true.
C9_FirstSolveCreatesDefaultEntry ==
    [][(/\ session[1].pc = "commit"
        /\ session[1].op = "submit_code"
        /\ session[1].args.all_passed
        /\ session'[1].pc = "done"
        /\ Lookup(ledger, session[1].args.user_id, session[1].args.problem_id) = {})
       => LET u == session[1].args.user_id
              p == session[1].args.problem_id
              created == ledger' \ ledger
          IN  /\ ledger \subseteq ledger'
              /\ Cardinality(created) = 1
              /\ \A row \in created :
                     /\ row.user_id = u
                     /\ row.problem_id = p
                     /\ row.ease_factor = DEFAULT_EASE_FACTOR
                     /\ row.interval_days = 0
                     /\ row.review_count = 0
                     /\ row.times_solved = 0
                     /\ row.is_mastered = FALSE
                     /\ row.show_again = FALSE
                     /\ row.next_review_date = NULL
                     /\ row.last_solved_at = NULL
              /\ session'[1].status = 200
              /\ session'[1].body.progress_info.needs_rating = TRUE]_vars

\* the second entry of the ledger was created by a passing first submission
C9_Witness ==
    /\ session[1].pc = "done"
    /\ session[1].op = "submit_code"
    /\ session[1].status = 200
    /\ session[1].args.all_passed
    /\ session[1].body.progress_info.needs_rating
    /\ Cardinality(ledger) = 2
    /\ \E row \in ledger :
           /\ row.id = 2
           /\ row.problem_id = session[1].args.problem_id
           /\ row.review_count = 0
           /\ row.next_review_date = NULL

\* C10 (as claimed): the response to a first passing submission reports
\* times_solved = 1, is_mastered = false and a next_review_date.
C10_FirstSolveResponse ==
    [][(/\ session[1].pc = "commit"
        /\ session[1].op = "submit_code"
        /\ session[1].args.all_passed
        /\ session'[1].pc = "done"
        /\ session'[1].status = 200
        /\ Lookup(ledger, session[1].args.user_id, session[1].args.problem_id) = {})
       => LET info == session'[1].body.progress_info
          IN  /\ info.times_solved = 1
              /\ info.is_mastered = FALSE
              /\ info.next_review_date # NULL]_vars

\* C11: a failing submission changes no ledger state.  update_user_progress
\* with passed = false returns only needs_rating = false and leaves nothing in
\* the session to write, whatever the ledger holds; a submit_code request whose
\* tests did not all pass commits without creating or changing an entry and
\* answers with needs_rating = false and no progress field.
C11_FailedSubmissionChangesNothing ==
    [][/\ \A u \in Users : \A p \in DOMAIN catalog :
              update_user_progress(Lookup(ledger, u, p), u, p, FALSE, today)
                  = [ret |-> [needs_rating |-> FALSE],
                     loaded |-> NoRow, object |-> NoRow]
       /\ (/\ session[1].pc = "commit"
           /\ session[1].op = "submit_code"
           /\ ~session[1].args.all_passed
           /\ session'[1].pc = "done")
          => /\ ledger' = ledger
             /\ session'[1].status = 200
             /\ session'[1].body.success = FALSE
             /\ session'[1].body.needs_rating = FALSE
             /\ DOMAIN session'[1].body.progress_info = {}]_vars

\* a failing submission for a problem without entry was answered while the
\* ledger holds a rated entry of another problem and nothing else
C11_Witness ==
    /\ session[1].pc = "done"
    /\ session[1].op = "submit_code"
    /\ ~session[1].args.all_passed
    /\ session[1].body.needs_rating = FALSE
    /\ Cardinality(ledger) = 1
    /\ \A row \in ledger :
           /\ row.problem_id # session[1].args.problem_id
           /\ row.review_count = 1

\* C12: update_user_progress never changes a field of an existing entry.  For
\* either value of passed it leaves the row it loaded as it was, and the commit
\* of a submission for a pair that has an entry leaves interval_days,
\* ease_factor, next_review_date, is_mastered, show_again, times_solved and
\* review_count of every entry as they were.
C12_SubmissionKeepsExistingEntry ==
    [][/\ \A row \in ledger : \A b \in BOOLEAN :
              LET upd == update_user_progress({row}, row.user_id,
                                              row.problem_id, b, today)
              IN  upd.object = upd.loaded
       /\ (/\ session[1].pc = "commit"
           /\ session[1].op = "submit_code"
           /\ session'[1].pc = "done"
           /\ Lookup(ledger, session[1].args.user_id,
                     session[1].args.problem_id) # {})
          => /\ Cardinality(ledger') = Cardinality(ledger)
             /\ \A row \in ledger : \E row2 \in ledger' :
                    /\ row2.id = row.id
                    /\ row2.interval_days = row.interval_days
                    /\ row2.ease_factor = row.ease_factor
                    /\ row2.next_review_date = row.next_review_date
                    /\ row2.is_mastered = row.is_mastered
                    /\ row2.show_again = row.show_again
                    /\ row2.times_solved = row.times_solved
                    /\ row2.review_count = row.review_count]_vars

\* a passing submission of a rated problem that is not due yet was answered
\* without a rating prompt
C12_Witness ==
    /\ session[1].pc = "done"
    /\ session[1].op = "submit_code"
    /\ session[1].status = 200
    /\ session[1].args.all_passed
    /\ session[1].body.needs_rating = FALSE
    /\ \E row \in ledger :
           /\ row.problem_id = session[1].args.problem_id
           /\ ~row.is_mastered
           /\ row.next_review_date # NULL
           /\ row.next_review_date > today
           /\ row.review_count = 1
           /\ row.times_solved = 1

\* C13: for an existing entry that is not mastered, a passing
\* update_user_progress returns needs_rating = true exactly when the entry is
\* due on the day of the call (next_review_date null or <= today), and the
\* response of the submission carries that value.
C13_PromptIffDue ==
    [][/\ (/\ session[1].pc \in {"idle", "done"}
           /\ session'[1].pc = "commit"
           /\ session'[1].op = "submit_code"
           /\ session'[1].args.all_passed
           /\ session'[1].loaded # NoRow
           /\ ~session'[1].loaded.is_mastered)
          => LET progress == session'[1].loaded
             IN  /\ progress \in ledger
                 /\ session'[1].ret.needs_rating
                        = (\/ progress.next_review_date = NULL
                           \/ progress.next_review_date <= today)
       /\ (/\ session[1].pc = "commit"
           /\ session[1].op = "submit_code"
           /\ session[1].args.all_passed
           /\ session'[1].pc = "done"
           /\ session'[1].status = 200)
          => session'[1].body.needs_rating = session[1].ret.needs_rating]_vars

\* a passing submission on the very day of the review date was answered with
\* a rating prompt
C13_Witness ==
    /\ session[1].pc = "done"
    /\ session[1].op = "submit_code"
    /\ session[1].status = 200
    /\ session[1].args.all_passed
    /\ session[1].body.needs_rating = TRUE
    /\ \E row \in ledger :
           /\ row.problem_id = session[1].args.problem_id
           /\ ~row.is_mastered
           /\ row.next_review_date = today
           /\ row.interval_days = 1

\* C14 (as claimed): a passing submission never prompts a rating for a mastered
\* entry: whenever update_user_progress(passed = true) loads an entry with
\* is_mastered = true, also one re-enrolled and rated back to mastery, it
\* returns needs_rating = false.
C14_MasteredNeverPrompts ==
    [][(/\ session[1].pc \in {"idle", "done"}
        /\ session'[1].pc = "commit"
        /\ session'[1].op = "submit_code"
        /\ session'[1].args.all_passed
        /\ session'[1].loaded # NoRow
        /\ session'[1].loaded.is_mastered)
       => session'[1].ret.needs_rating = FALSE]_vars

\* C15 (as claimed): show_again is true only until the re-enrolled entry is
\* rated back to mastery: in every reachable state a mastered entry has
\* show_again = false.
C15_MasteredClearsShowAgain ==
    \A row \in ledger : row.is_mastered => ~row.show_again

\* C16: a successful apply_rating sets (interval_days, ease_factor,
\* is_mastered) of the entry to calculate_next_review(old interval_days, old
\* ease_factor, rating), adds exactly 1 to review_count and to times_solved,
\* and sets next_review_date to null if the result is mastered and to the day
\* of the call + the new interval_days otherwise; the commit writes exactly
\* that to the entry and changes no other entry.
C16_RatingUpdatesEntry ==
    [][/\ (/\ session[1].pc \in {"idle", "done"}
           /\ session'[1].pc = "commit"
           /\ session'[1].op = "rate_submission")
          => LET old == session'[1].loaded
                 new == session'[1].object
                 calc == calculate_next_review(old.interval_days,
                                               old.ease_factor,
                                               session'[1].args.rating)
             IN  /\ old \in ledger
                 /\ old.user_id = session'[1].args.user_id
                 /\ old.problem_id = session'[1].args.problem_id
                 /\ new.interval_days = calc[1]
                 /\ new.ease_factor = calc[2]
                 /\ new.is_mastered = calc[3]
                 /\ new.review_count = old.review_count + 1
                 /\ new.times_solved = old.times_solved + 1
                 /\ new.next_review_date =
                        (IF calc[3] THEN NULL ELSE today + calc[1])
                 /\ new.id = old.id
                 /\ new.user_id = old.user_id
                 /\ new.problem_id = old.problem_id
                 /\ new.show_again = old.show_again
       /\ (/\ session[1].pc = "commit"
           /\ session[1].op = "rate_submission"
           /\ session'[1].pc = "done")
          => /\ session'[1].status = 200
             /\ ledger' = (ledger \ {session[1].loaded})
                               \cup {session[1].object}
             /\ Cardinality(ledger') = Cardinality(ledger)]_vars

\* a second "good" rating took an entry from 3 to 7 days while the ledger
\* holds another entry, never rated
C16_Witness ==
    /\ session[1].pc = "done"
    /\ session[1].op = "rate_submission"
    /\ session[1].status = 200
    /\ session[1].args.rating = "good"
    /\ \E row \in ledger :
           /\ row.problem_id = session[1].args.problem_id
           /\ row.interval_days = 7
           /\ row.review_count = 2
           /\ row.times_solved = 2
           /\ row.next_review_date # NULL
    /\ \E row \in ledger :
           /\ row.problem_id # session[1].args.problem_id
           /\ row.review_count = 0

\* C17: a rating request is rejected and leaves the whole ledger unchanged when
\* its rating is not one of again/hard/good/mastered or when the (user,
\* problem) pair has no ledger entry.
C17_RejectedRatingChangesNothing ==
    [][(/\ session[1].pc \in {"idle", "done"}
        /\ session'[1] # session[1]
        /\ session'[1].op = "rate_submission"
        /\ \/ session'[1].args.rating \notin VALID_RATINGS
           \/ Lookup(ledger, session'[1].args.user_id,
                     session'[1].args.problem_id) = {})
       => /\ session'[1].pc = "done"
          /\ session'[1].status = 400
          /\ ledger' = ledger]_vars

\* a valid rating for a problem without entry was rejected while the ledger
\* holds one entry, of the other problem
C17_Witness ==
    /\ session[1].pc = "done"
    /\ session[1].op = "rate_submission"
    /\ session[1].status = 400
    /\ session[1].args.rating \in VALID_RATINGS
    /\ Cardinality(ledger) = 1
    /\ \A row \in ledger : row.problem_id # session[1].args.problem_id

\* C18: a successful mark_show_again on a mastered entry sets show_again =
\* true, is_mastered = false, next_review_date = the day of the call,
\* interval_days = 0 and ease_factor = 2.5, and leaves times_solved,
\* review_count and every other entry unchanged.
C18_ShowAgainResetsEntry ==
    [][/\ (/\ session[1].pc \in {"idle", "done"}
           /\ session'[1].pc = "commit"
           /\ session'[1].op = "show_again")
          => LET old == session'[1].loaded
                 new == session'[1].object
             IN  /\ old \in ledger
                 /\ old.is_mastered
                 /\ old.user_id = session'[1].args.user_id
                 /\ old.problem_id = session'[1].args.problem_id
                 /\ new.show_again = TRUE
                 /\ new.is_mastered = FALSE
                 /\ new.next_review_date = today
                 /\ new.interval_days = 0
                 /\ new.ease_factor = DEFAULT_EASE_FACTOR
                 /\ new.times_solved = old.times_solved
                 /\ new.review_count = old.review_count
                 /\ new.last_solved_at = old.last_solved_at
                 /\ new.id = old.id
                 /\ new.user_id = old.user_id
                 /\ new.problem_id = old.problem_id
       /\ (/\ session[1].pc = "commit"
           /\ session[1].op = "show_again"
           /\ session'[1].pc = "done")
          => /\ session'[1].status = 200
             /\ ledger' = (ledger \ {session[1].loaded})
                               \cup {session[1].object}
             /\ Cardinality(ledger') = Cardinality(ledger)]_vars

\* an entry rated "again" and then "mastered" was re-enrolled: its ease factor
\* is back from 2.3 to 2.5 and its counters still read 2
C18_Witness ==
    /\ session[1].pc = "done"
    /\ session[1].op = "show_again"
    /\ session[1].status = 200
    /\ \E row \in ledger :
           /\ row.problem_id = session[1].args.problem_id
           /\ row.show_again
           /\ ~row.is_mastered
           /\ row.next_review_date = today
           /\ row.interval_days = 0
           /\ row.ease_factor = DEFAULT_EASE_FACTOR
           /\ row.review_count = 2
           /\ row.times_solved = 2

\* C19: a show-again request is rejected and leaves the ledger unchanged when
\* the (user, problem) pair has no entry or its entry is not mastered; so a
\* show-again that follows a successful one for the same pair is rejected.
C19_RejectedShowAgainChangesNothing ==
    [][(/\ session[1].pc \in {"idle", "done"}
        /\ session'[1] # session[1]
        /\ session'[1].op = "show_again")
       => LET rows == Lookup(ledger, session'[1].args.user_id,
                              session'[1].args.problem_id)
              again == /\ session[1].pc = "done"
                       /\ session[1].op = "show_again"
                       /\ session[1].status = 200
                       /\ session[1].args = session'[1].args
          IN  (rows = {} \/ (\E row \in rows : ~row.is_mastered) \/ again)
                  => /\ session'[1].pc = "done"
                     /\ session'[1].status = 400
                     /\ ledger' = ledger]_vars

\* a second show-again for an entry that was just re-enrolled was rejected
C19_Witness ==
    /\ session[1].pc = "done"
    /\ session[1].op = "show_again"
    /\ session[1].status = 400
    /\ \E row \in ledger :
           /\ row.problem_id = session[1].args.problem_id
           /\ row.show_again
           /\ ~row.is_mastered
           /\ row.interval_days = 0
           /\ row.review_count = 1

\* C20: a "hard" or "good" rating of an entry whose interval_days is 0 gives
\* interval_days 1 for "hard" and 3 for "good", leaves ease_factor as it was
\* and leaves the entry non-mastered; a "good" rating that directly follows a
\* successful show-again of the entry gives interval_days = 3, ease_factor =
\* 2.5, is_mastered = false; and the commit writes these values.
C20_FirstReviewIntervals ==
    [][/\ (/\ session[1].pc \in {"idle", "done"}
           /\ session'[1].pc = "commit"
           /\ session'[1].op = "rate_submission"
           /\ session'[1].args.rating \in {"hard", "good"}
           /\ session'[1].loaded.interval_days = 0)
          => LET old == session'[1].loaded
                 new == session'[1].object
                 good == session'[1].args.rating = "good"
                 shown == /\ session[1].pc = "done"
                          /\ session[1].op = "show_again"
                          /\ session[1].status = 200
                          /\ session[1].args.user_id = old.user_id
                          /\ session[1].args.problem_id = old.problem_id
             IN  /\ new.interval_days = (IF good THEN 3 ELSE 1)
                 /\ new.ease_factor = old.ease_factor
                 /\ new.is_mastered = FALSE
                 /\ (shown /\ good) => /\ new.interval_days = 3
                                       /\ new.ease_factor = DEFAULT_EASE_FACTOR
       /\ (/\ session[1].pc = "commit"
           /\ session[1].op = "rate_submission"
           /\ session'[1].pc = "done")
          => session[1].object \in ledger']_vars

\* an entry rated "mastered", re-enrolled and rated "good" has interval 3,
\* ease factor 2.5 and is not mastered
C20_Witness ==
    /\ session[1].pc = "done"
    /\ session[1].op = "rate_submission"
    /\ session[1].status = 200
    /\ session[1].args.rating = "good"
    /\ \E row \in ledger :
           /\ row.problem_id = session[1].args.problem_id
           /\ row.show_again
           /\ row.interval_days = 3
           /\ row.ease_factor = DEFAULT_EASE_FACTOR
           /\ ~row.is_mastered
           /\ row.review_count = 2

\* C21: for every current_interval >= 1 and ease, "good" returns the interval
\* max(current_interval + 1, floor(current_interval * ease)), the product
\* taken of the interval and the value of the entry's ease_factor, the ease
\* unchanged, and mastered exactly when the new interval is >= 30
C21_GoodInterval ==
    (/\ session[1].pc = "done"
     /\ session[1].op = "calculate_next_review"
     /\ session[1].args.rating = "good"
     /\ session[1].args.current_interval >= 1)
    => LET i == session[1].args.current_interval
           a == session[1].args.ease_factor
           c0 == i * a[5]
           c1 == i * a[4] + (c0 \div LimbBase)
           c2 == i * a[3] + (c1 \div LimbBase)
           c3 == i * a[2] + (c2 \div LimbBase)
           floor == i * a[1] + (c3 \div LimbBase)
       IN  /\ session[1].body[1] = Max(i + 1, floor)
           /\ session[1].body[2] = a
           /\ session[1].body[3] <=> (session[1].body[1] >= 30)

C23_AgainResets ==
    [][(/\ ledger' # ledger
        /\ session'[1].op = "apply_rating"
        /\ session'[1].args.rating = "again")
       => \E old \in ledger, new \in ledger' :
              /\ ledger' = (ledger \ {old}) \cup {new}
              /\ new.id = old.id
              /\ new.interval_days = 1
              /\ Round2(new.ease_factor) = Max(130, Round2(old.ease_factor) - 20)
              /\ ~FloatLess(new.ease_factor, MIN_EASE_FACTOR)
              /\ new.is_mastered = FALSE
              /\ new.next_review_date = today + 1
              /\ session'[1].status = 200
              /\ session'[1].body.interval_days = 1
              /\ session'[1].body.is_mastered = FALSE
              /\ session'[1].body.next_review_date = today + 1]_vars

\* "again" on day 1 as the fifth rating of an entry whose ease was lowered
\* only by that rating: the entry is due on day 2 with interval 1
C23_Witness ==
    /\ today = 1
    /\ session[1].pc = "done"
    /\ session[1].op = "apply_rating"
    /\ session[1].status = 200
    /\ session[1].args.rating = "again"
    /\ session[1].args.today = 1
    /\ \E row \in ledger :
           /\ row.review_count = 5
           /\ row.interval_days = 1
           /\ Round2(row.ease_factor) = 230
           /\ ~row.is_mastered
           /\ row.next_review_date = 2

\* C24: apply_rating with "mastered" leaves the entry at interval_days = 0,
\* the ease unchanged, mastered, with next_review_date null
C24_MasteredRating ==
    [][(/\ ledger' # ledger
        /\ session'[1].op = "apply_rating"
        /\ session'[1].args.rating = "mastered")
       => \E old \in ledger, new \in ledger' :
              /\ ledger' = (ledger \ {old}) \cup {new}
              /\ new.id = old.id
              /\ new.interval_days = 0
              /\ new.ease_factor = old.ease_factor
              /\ new.is_mastered = TRUE
              /\ new.next_review_date = NULL
              /\ session'[1].status = 200
              /\ session'[1].body.interval_days = 0
              /\ session'[1].body.is_mastered = TRUE
              /\ session'[1].body.next_review_date = NULL]_vars

\* "mastered" as the third rating of an entry with a lowered ease, which had
\* an interval and a review date before
C24_Witness ==
    /\ session[1].pc = "done"
    /\ session[1].op = "apply_rating"
    /\ session[1].status = 200
    /\ session[1].args.rating = "mastered"
    /\ \E row \in ledger :
           /\ row.review_count = 3
           /\ row.interval_days = 0
           /\ Round2(row.ease_factor) = 215
           /\ row.is_mastered
           /\ row.next_review_date = NULL

\* C25: in every reachable state, every entry that is not mastered and has
\* times_solved > 0 has a next_review_date (not null)
C25_LearningEntryHasReviewDate ==
    \A row \in ledger :
        (~row.is_mastered /\ row.times_solved > 0)
            => row.next_review_date # NULL

\* C27: in every reachable state an entry with interval_days >= 30 is
\* mastered (a non-mastered entry has interval_days < 30)
C27_ThresholdMeansMastered ==
    \A row \in ledger :
        row.interval_days >= MASTERY_THRESHOLD_DAYS => row.is_mastered

\* C28: every entry has review_count = times_solved, and no step lowers the
\* review_count or the times_solved of an entry
C28_CountersAgree ==
    [][\A new \in ledger' :
           /\ new.review_count = new.times_solved
           /\ \A old \in ledger :
                  old.id = new.id
                      => /\ new.review_count >= old.review_count
                         /\ new.times_solved >= old.times_solved]_vars

\* C29: on the day of a successful apply_rating, with no call after it, the
\* rated entry is not due: it is mastered with next_review_date null, or it
\* has interval_days >= 1 and next_review_date > today; get_todays_problems
\* does not list it, and if it is not mastered a passing update_user_progress
\* returns needs_rating = false
C29_RatedEntryNotDueSameDay ==
    (/\ session[1].pc = "done"
     /\ session[1].op = "apply_rating"
     /\ session[1].status = 200
     /\ session[1].args.today = today)
    => LET user_id == session[1].args.user_id
           rows == Lookup(ledger, user_id, session[1].args.problem_id)
       IN  /\ rows # {}
           /\ \A row \in rows :
                  /\ \/ row.is_mastered /\ row.next_review_date = NULL
                     \/ /\ ~row.is_mastered
                        /\ row.interval_days >= 1
                        /\ row.next_review_date # NULL
                        /\ row.next_review_date > today
                  /\ \A reviews \in ReviewResults(ledger, user_id, today) :
                         \A i \in DOMAIN reviews : reviews[i] # row
                  /\ ~row.is_mastered
                         => update_user_progress(rows, user_id, row.problem_id,
                                                 TRUE, today).ret.needs_rating
                                = FALSE

\* on day 1 a re-enrolled entry was rated "again": it is due on day 2
C29_Witness ==
    /\ today = 1
    /\ session[1].pc = "done"
    /\ session[1].op = "apply_rating"
    /\ session[1].status = 200
    /\ session[1].args.today = 1
    /\ session[1].args.rating = "again"
    /\ \E row \in ledger :
           /\ row.show_again
           /\ ~row.is_mastered
           /\ row.interval_days = 1
           /\ row.next_review_date = 2

\* C26: submit_code answers success = true, and calls update_user_progress,
\* only if the judge returned one passed result for every test case of the
\* problem: the number of passed results equals total_test_cases
C26_SuccessMeansAllTestsPassed ==
    (/\ session[1].pc = "done"
     /\ session[1].op = "submit_code"
     /\ session[1].status = 200)
    => ((\/ session[1].body.success
         \/ DOMAIN session[1].body.progress_info # {})
        => /\ session[1].body.summary.passed = session[1].body.total_test_cases
           /\ Len(session[1].body.results) = session[1].body.total_test_cases)

\* C30: once an entry is rated "good" at every review, whatever interval and
\* ease (down to 1.3) it starts from, every such rating makes the interval
\* longer, and the entry is eventually mastered
C30_GoodEventuallyMasters ==
    /\ [][(session'[1].pc = "done" /\ session'[1].op = "good_review")
              => session'[1].body[1] > session'[1].args.current_interval]_vars
    /\ ((session[1].pc = "done" /\ session[1].op = "good_review")
            ~> (session[1].pc = "done" /\ session[1].op = "good_review"
                   /\ session[1].body[3]))

\* a "good" rating at the ease floor 1.3 mastered the entry
C30_Witness ==
    /\ session[1].pc = "done"
    /\ session[1].op = "good_review"
    /\ session[1].args.ease_factor = MIN_EASE_FACTOR
    /\ session[1].args.current_interval < MASTERY_THRESHOLD_DAYS
    /\ session[1].body[3]
====
